---- MODULE Spec2Model ----
(***************************************************************************)
(* OpenJTalk phoneme labels -> IPA: the transliteration engine             *)
(* (OpenJTalkLabelEpitran, CustomEpitran) and the silence-marker segmenter *)
(* of check_epitran_openjtalk.py / check_custom_epitran.py.                *)
(*                                                                         *)
(* A string is a sequence of one-character strings.  "E" is a precomposed  *)
(* character whose canonical decomposition is "a" followed by the          *)
(* combining mark "m"; "nl" is the line feed; "T" is a tone letter.        *)
(***************************************************************************)
EXTENDS Integers, Sequences, FiniteSets, TLC

\* Longest input text handed to transliterate.
MaxLen == 2

\* Most pieces (labels, or empty pieces between spaces) of a label string
\* handed to phoneme_labels_to_ipa.
MaxPieces == 3

\* Tokens after which the model stops following a tokenizer loop: more than
\* the longest normalised input has characters.
MaxSteps == 2 * MaxLen + 1

Threads == {1, 2}

InputChars == {"a", "b", " ", "nl", "E"}

RECURSIVE SeqsUpTo(_, _)
SeqsUpTo(S, n) ==
    IF n = 0 THEN {<<>>}
    ELSE LET shorter == SeqsUpTo(S, n - 1)
         IN  shorter \cup {Append(s, c) : s \in shorter, c \in S}

Texts == SeqsUpTo(InputChars, MaxLen)

EmptyMap == [c \in {} |-> 0]

IsPrefix(k, s) == Len(k) <= Len(s) /\ SubSeq(s, 1, Len(k)) = k

(***************************************************************************)
(* unicodedata.normalize                                                   *)
(***************************************************************************)
RECURSIVE NFD(_)
NFD(s) ==
    IF s = <<>> THEN <<>>
    ELSE (IF Head(s) = "E" THEN <<"a", "m">> ELSE <<Head(s)>>) \o NFD(Tail(s))

RECURSIVE NFC(_)
NFC(s) ==
    IF s = <<>> THEN <<>>
    ELSE IF Len(s) >= 2 /\ s[1] = "a" /\ s[2] = "m"
         THEN <<"E">> \o NFC(SubSeq(s, 3, Len(s)))
         ELSE <<Head(s)>> \o NFC(Tail(s))

\* str.lower(): "A" is the capital of "a"
Lower(s) == [i \in 1..Len(s) |-> IF s[i] = "A" THEN "a" ELSE s[i]]

\* regex.sub("[tone letters]", "", phon)
StripTones(s) == SelectSeq(s, LAMBDA c : c # "T")

\* SimpleEpitran's default: tones=False
tones == FALSE

(***************************************************************************)
(* Mapping files: the rows csv.reader yields, or no file at all.           *)
(***************************************************************************)
Header == << <<"Orth">>, <<"Phon">> >>

FileNames == {"absent", "empty", "header", "a_ab", "dup", "onecol", "nosrc", "threecol"}

\* further mapping files: keys that differ in case only, and a_ab with its
\* data rows in the other order
MoreFileNames == FileNames \cup {"case", "ab_a"}

FileExists(name) == name # "absent"

FileRows(name) ==
    CASE name = "empty"    -> <<>>
      [] name = "header"   -> <<Header>>
      [] name = "a_ab"     -> <<Header, << <<"a">>, <<"x">> >>, << <<"a", "b">>, <<"y">> >> >>
      [] name = "dup"      -> <<Header, << <<"a">>, <<"x", "T">> >>, << <<"a">>, <<"z">> >> >>
      [] name = "onecol"   -> <<Header, << <<"b">> >>, << <<"a">>, <<"x">> >> >>
      [] name = "nosrc"    -> <<Header, << <<>>, <<"z">> >>, << <<"a">>, <<"x">> >> >>
      [] name = "threecol" -> <<Header, << <<"E">>, <<"y">>, <<"q">> >>, << <<"b">>, <<"E">> >> >>
      [] name = "case"     -> <<Header, << <<"a">>, <<"x">> >>, << <<"A">>, <<"z">> >> >>
      [] name = "ab_a"     -> <<Header, << <<"a", "b">>, <<"y">> >>, << <<"a">>, <<"x">> >> >>
      [] OTHER             -> <<>>

(***************************************************************************)
(* Post-processing rule files: ordered literal rewrite rules.              *)
(***************************************************************************)
PostNames == {"None", "AB", "BA"}

\* a further rule file, whose one rule writes the combining mark
MorePostNames == PostNames \cup {"YM"}

RuleA == [pat |-> <<"x">>, rep |-> <<"y">>]
RuleB == [pat |-> <<"y">>, rep |-> <<"z">>]
RuleM == [pat |-> <<"y">>, rep |-> <<"m">>]

PostRules(name) ==
    CASE name = "AB" -> <<RuleA, RuleB>>
      [] name = "BA" -> <<RuleB, RuleA>>
      [] name = "YM" -> <<RuleM>>
      [] OTHER       -> <<>>

VARIABLES
    cls,              \* class of the engine instance
    custom_map_file,  \* self._custom_map_file
    post_file,        \* post_file argument of __init__
    engine,           \* "new", "ready", or the exception __init__ raised
    g2p,              \* self.g2p: source |-> list of targets
    regexp,           \* self.regexp
    nils,             \* self.nils: symbol |-> count
    pc,               \* position of each caller inside transliterate
    input,            \* text argument of the call
    text,             \* general_trans: the remaining text
    tr_list,          \* general_trans: tr_list
    result,           \* transliterate: result
    outcome,          \* what the call handed to its caller
    prev,             \* how the caller's previous call ended
    wrapper,          \* whether the call entered through the validating transliterate
    p2i_pc,           \* phoneme_labels_to_ipa: position of its caller
    p2i_labels,       \* phoneme_labels_to_ipa: its argument
    p2i_segments,     \* phoneme_labels_to_ipa: segments
    p2i_idx,          \* phoneme_labels_to_ipa: index of the segment the loop is at
    ipa_segments,     \* phoneme_labels_to_ipa: ipa_segments
    p2i_out,          \* phoneme_labels_to_ipa: what it handed to its caller
    phoneme_labels,   \* split_by_silence_markers: its argument
    segments,         \* split_by_silence_markers: the returned list
    seg_pc,           \* "start" before the call, "done" after it
    gen_pc,           \* generator scripts: "start" before the call, "done" after it
    gen_arg,          \* generator scripts: the argument (or input file) of the call
    gen_ret,          \* generator scripts: what the call returned (or wrote)
    get_pc,           \* _get_epitran: each caller's position in the function
    epitran_instance, \* _epitran_instance: 0 is None, else the engine's identity
    made,             \* the number of engines constructed so far
    new_instance,     \* _get_epitran: the engine a caller has constructed, not yet stored
    handed,           \* the identities _get_epitran has returned so far
    calls             \* the number of calls of _get_epitran each caller has begun

segVars == <<phoneme_labels, segments, seg_pc>>

p2iVars == <<p2i_pc, p2i_labels, p2i_segments, p2i_idx, ipa_segments, p2i_out>>

genVars == <<gen_pc, gen_arg, gen_ret>>

getVars == <<get_pc, epitran_instance, made, new_instance, handed, calls>>

vars == <<cls, custom_map_file, post_file, engine, g2p, regexp, nils,
          pc, input, text, tr_list, result, outcome, prev, wrapper, segVars, p2iVars,
                   genVars, getVars>>

(***************************************************************************)
(* _load_g2p_map.  The dict under construction is kept in insertion order  *)
(* as a sequence of [graph, phons] entries (g2p.keys() is read in that     *)
(* order by _construct_regex).                                             *)
(***************************************************************************)
KeyIndex(od, k) ==
    LET hits == {i \in 1..Len(od) : od[i].graph = k}
    IN  IF hits = {} THEN 0 ELSE CHOOSE i \in hits : TRUE

\* a later row of a source replaces the targets the earlier rows gave it
AppendPhonOverwrite(od, k, v) ==
    LET i == KeyIndex(od, k)
    IN  IF i = 0 THEN Append(od, [graph |-> k, phons |-> <<v>>])
        ELSE [od EXCEPT ![i].phons = <<v>>]

\* g2p[graph].append(phon) on a defaultdict(list)
AppendPhon(od, k, v) ==
    LET i == KeyIndex(od, k)
    IN  IF i = 0 THEN Append(od, [graph |-> k, phons |-> <<v>>])
        ELSE [od EXCEPT ![i].phons = Append(@, v)]

\* One data row of the OpenJTalkLabelEpitran loader: rows with fewer than two
\* columns are skipped, columns after the second are ignored.
LoadRowSkipShort(od, row) ==
    IF Len(row) < 2 THEN od
    ELSE LET graph == NFD(row[1])
             phon  == NFD(row[2])
         IN  AppendPhon(od, graph, IF ~tones THEN StripTones(phon) ELSE phon)

RECURSIVE LoadRows(_, _)
LoadRows(od, rows) ==
    IF rows = <<>> THEN od
    ELSE LoadRows(LoadRowSkipShort(od, Head(rows)), Tail(rows))

\* OpenJTalkLabelEpitran._load_g2p_map: [exc |-> exception or "none", od |-> dict]
LoadOpenJTalk(name) ==
    IF ~FileExists(name) THEN [exc |-> "none", od |-> <<>>]
    ELSE IF FileRows(name) = <<>>
         THEN [exc |-> "StopIteration", od |-> <<>>]   \* next(reader) on an empty file
         ELSE [exc |-> "none", od |-> LoadRows(<<>>, Tail(FileRows(name)))]

\* CustomEpitran._load_g2p_map: open() needs the file, `for graph, phon in reader`
\* needs exactly two columns in every row.
LoadCustom(name) ==
    IF ~FileExists(name) THEN [exc |-> "FileNotFoundError", od |-> <<>>]
    ELSE IF FileRows(name) = <<>>
         THEN [exc |-> "StopIteration", od |-> <<>>]
         ELSE LET rows == Tail(FileRows(name))
              IN  IF \E i \in 1..Len(rows) : Len(rows[i]) # 2
                  THEN [exc |-> "ValueError", od |-> <<>>]
                  ELSE [exc |-> "none", od |-> LoadRows(<<>>, rows)]

\* The dict as a value: key |-> list of targets (dict equality ignores order).
DictOf(od) ==
    [k \in {od[i].graph : i \in 1..Len(od)} |-> od[KeyIndex(od, k)].phons]

KeysInOrder(od) == [i \in 1..Len(od) |-> od[i].graph]

(***************************************************************************)
(* _construct_regex: sorted(g2p_keys, key=len, reverse=True) is a stable   *)
(* sort; the alternation tries its alternatives in that order.             *)
(***************************************************************************)
\* position of k among `sorted`: after every element at least as long
InsertByLen(sorted, k) ==
    LET n == Cardinality({i \in 1..Len(sorted) : Len(sorted[i]) >= Len(k)})
    IN  SubSeq(sorted, 1, n) \o <<k>> \o SubSeq(sorted, n + 1, Len(sorted))

RECURSIVE SortedByLenDesc(_, _)
SortedByLenDesc(sorted, keys) ==
    IF keys = <<>> THEN sorted
    ELSE SortedByLenDesc(InsertByLen(sorted, Head(keys)), Tail(keys))

\* the alternation built without the sort: keys in file order
ConstructRegexUnsorted(g2p_keys) ==
    IF g2p_keys = <<>>
    THEN [fallback |-> TRUE, ignorecase |-> FALSE, alts |-> <<>>]
    ELSE [fallback |-> FALSE, ignorecase |-> FALSE, alts |-> g2p_keys]

\* the alternation compiled with the regex.I flag
ConstructRegexIgnoreCase(g2p_keys) ==
    LET graphemes == SortedByLenDesc(<<>>, g2p_keys)
    IN  IF graphemes = <<>>
        THEN [fallback |-> TRUE, ignorecase |-> TRUE, alts |-> <<>>]
        ELSE [fallback |-> FALSE, ignorecase |-> TRUE, alts |-> graphemes]

ConstructRegex(g2p_keys) ==
    LET graphemes == SortedByLenDesc(<<>>, g2p_keys)
    IN  IF graphemes = <<>>
        THEN [fallback |-> TRUE, ignorecase |-> FALSE, alts |-> <<>>]     \* regex "(.)"
        ELSE [fallback |-> FALSE, ignorecase |-> FALSE, alts |-> graphemes]

\* SimpleEpitran._construct_regex, which CustomEpitran inherits: the regex.I
\* flag that OpenJTalkLabelEpitran removes, and no fallback
ConstructRegexParent(g2p_keys) ==
    LET graphemes == SortedByLenDesc(<<>>, g2p_keys)
    IN  [fallback |-> FALSE, ignorecase |-> TRUE,
         alts |-> IF graphemes = <<>> THEN << <<>> >> ELSE graphemes]

\* self.regexp.match(text) for a non-empty text: [hit, group]
RegexMatch(re, s) ==
    IF re.fallback
    THEN IF s[1] # "nl" THEN [hit |-> TRUE, group |-> <<s[1]>>]   \* "." is not a line feed
         ELSE [hit |-> FALSE, group |-> <<>>]
    ELSE LET hits == {i \in 1..Len(re.alts) :
                          IF re.ignorecase THEN IsPrefix(Lower(re.alts[i]), Lower(s))
                          ELSE IsPrefix(re.alts[i], s)}
         IN  IF hits = {} THEN [hit |-> FALSE, group |-> <<>>]
             ELSE LET first == CHOOSE i \in hits : \A j \in hits : i <= j
                  IN  [hit |-> TRUE, group |-> SubSeq(s, 1, Len(re.alts[first]))]

(***************************************************************************)
(* _CustomProcessor.process: every rule once, in file order, each over the *)
(* text the previous rule produced.                                        *)
(***************************************************************************)
RECURSIVE ReplaceAll(_, _, _)
ReplaceAll(s, pat, rep) ==
    IF s = <<>> THEN <<>>
    ELSE IF IsPrefix(pat, s)
         THEN rep \o ReplaceAll(SubSeq(s, Len(pat) + 1, Len(s)), pat, rep)
         ELSE <<Head(s)>> \o ReplaceAll(Tail(s), pat, rep)

\* the rules taken from the last to the first
RECURSIVE ApplyRulesReversed(_, _)
ApplyRulesReversed(rules, s) ==
    IF rules = <<>> THEN s
    ELSE ReplaceAll(ApplyRulesReversed(Tail(rules), s), Head(rules).pat, Head(rules).rep)

RECURSIVE ApplyRules(_, _)
ApplyRules(rules, s) ==
    IF rules = <<>> THEN s
    ELSE ApplyRules(Tail(rules), ReplaceAll(s, Head(rules).pat, Head(rules).rep))

Process(s) == ApplyRules(PostRules(post_file), s)

\* the join under a filter_func that keeps the matched tokens only
RECURSIVE JoinMatchedTargets(_)
JoinMatchedTargets(toks) ==
    IF toks = <<>> THEN <<>>
    ELSE (IF Head(toks).matched THEN Head(toks).target ELSE <<>>)
             \o JoinMatchedTargets(Tail(toks))

\* "".join([s for (s, _) in filter(filter_func, tr_list)]) with the
\* filter_func of SimpleEpitran.transliterate, which keeps every token
RECURSIVE JoinTargets(_)
JoinTargets(toks) ==
    IF toks = <<>> THEN <<>> ELSE Head(toks).target \o JoinTargets(Tail(toks))

(***************************************************************************)
(* Construction                                                            *)
(***************************************************************************)
Classes == {"OpenJTalkLabelEpitran", "CustomEpitran"}

NoOutcome == [kind |-> "none", value |-> <<>>, tally |-> EmptyMap,
              input |-> <<>>, map_file |-> ""]

InitWith(files, posts) ==
    /\ cls \in Classes
    /\ custom_map_file \in files
    /\ post_file \in posts
    /\ engine = "new"
    /\ g2p = EmptyMap
    /\ regexp = [fallback |-> TRUE, ignorecase |-> FALSE, alts |-> <<>>]
    /\ nils = EmptyMap
    /\ pc = [t \in Threads |-> "idle"]
    /\ input = [t \in Threads |-> <<>>]
    /\ text = [t \in Threads |-> <<>>]
    /\ tr_list = [t \in Threads |-> <<>>]
    /\ result = [t \in Threads |-> <<>>]
    /\ outcome = [t \in Threads |-> NoOutcome]
    /\ prev = [t \in Threads |-> "none"]
    /\ wrapper = [t \in Threads |-> TRUE]
    /\ p2i_pc = "idle"
    /\ p2i_labels = <<>>
    /\ p2i_segments = <<>>
    /\ p2i_idx = 0
    /\ ipa_segments = <<>>
    /\ p2i_out = NoOutcome
    /\ phoneme_labels = <<>>
    /\ segments = <<>>
    /\ seg_pc = "start"
    /\ gen_pc = "start"
    /\ gen_arg = <<>>
    /\ gen_ret = <<>>
    /\ get_pc = [t \in Threads |-> "idle"]
    /\ epitran_instance = 0
    /\ made = 0
    /\ new_instance = [t \in Threads |-> 0]
    /\ handed = {}
    /\ calls = [t \in Threads |-> 0]

Init == InitWith(FileNames, PostNames)

LoadG2pMap ==
    IF cls = "OpenJTalkLabelEpitran" THEN LoadOpenJTalk(custom_map_file)
    ELSE LoadCustom(custom_map_file)

\* __init__: SimpleEpitran.__init__ loads the table, compiles the regex and
\* creates the tally; an exception of the loader leaves no engine.
ConstructEngine ==
    /\ LET loaded == LoadG2pMap
       IN  IF loaded.exc # "none"
           THEN /\ engine' = loaded.exc
                /\ UNCHANGED <<g2p, regexp>>
           ELSE /\ engine' = "ready"
                /\ g2p' = DictOf(loaded.od)
                /\ regexp' = IF cls = "OpenJTalkLabelEpitran"
                              THEN ConstructRegex(KeysInOrder(loaded.od))
                              ELSE ConstructRegexParent(KeysInOrder(loaded.od))
    /\ nils' = EmptyMap

Construct ==
    /\ engine = "new"
    /\ ConstructEngine
    /\ UNCHANGED <<cls, custom_map_file, post_file, pc, input, text, tr_list,
                   result, outcome, prev, wrapper, segVars, p2iVars,
                   genVars, getVars>>

(***************************************************************************)
(* OpenJTalkLabelEpitran.transliterate, one caller t                       *)
(***************************************************************************)
\* the tally carried over from the previous call
NotCleared(tally) == tally

\* self.nils.clear()
Cleared(tally) == EmptyMap

\* general_trans up to the tokenizer loop: norm is the text after
\* normalisation (preproc is False in both classes), tr_list is empty.
EnterLoop(t, txt, norm, validating) ==
    /\ engine = "ready"
    /\ pc[t] \in {"idle", "returned", "raised"}
    /\ input' = [input EXCEPT ![t] = txt]
    /\ text' = [text EXCEPT ![t] = norm]
    /\ tr_list' = [tr_list EXCEPT ![t] = <<>>]
    /\ result' = [result EXCEPT ![t] = <<>>]
    /\ prev' = [prev EXCEPT ![t] = outcome[t].kind]
    /\ outcome' = [outcome EXCEPT ![t] = NoOutcome]
    /\ wrapper' = [wrapper EXCEPT ![t] = validating]
    /\ pc' = [pc EXCEPT ![t] = "loop"]
    /\ UNCHANGED <<cls, custom_map_file, post_file, engine, g2p, regexp, segVars,
                   genVars, getVars>>

\* Entry of OpenJTalkLabelEpitran.transliterate: the tally is cleared, then
\* general_trans decomposes the text.
BeginCall(t, txt) ==
    /\ cls = "OpenJTalkLabelEpitran"
    /\ nils' = Cleared(nils)
    /\ EnterLoop(t, txt, NFD(txt), TRUE)

Begin(t, txt) == BeginCall(t, txt) /\ UNCHANGED p2iVars

\* self.nils[c] += 1 on a defaultdict(int)
Increment(tally, c) ==
    IF c \in DOMAIN tally THEN [tally EXCEPT ![c] = @ + 1]
    ELSE [k \in DOMAIN tally \cup {c} |-> IF k = c THEN 1 ELSE tally[k]]

\* self.g2p[source] on a defaultdict(list): a missing key is inserted
Touched(dict, source) ==
    IF source \in DOMAIN dict THEN dict
    ELSE [k \in DOMAIN dict \cup {source} |-> IF k = source THEN <<>> ELSE dict[k]]

\* target = self.g2p[source][0], or source on KeyError / IndexError
TargetOf(dict, source) ==
    IF source \in DOMAIN dict /\ dict[source] # <<>> THEN dict[source][1] ELSE source

\* The tokens the `while text:` loop gives for the text s under a regex and a
\* table, following at most n iterations.
RECURSIVE Tokenize(_, _, _, _)
Tokenize(re, dict, s, n) ==
    IF s = <<>> \/ n = 0 THEN <<>>
    ELSE LET m == RegexMatch(re, s)
         IN  IF m.hit
             THEN <<[target |-> TargetOf(dict, m.group), matched |-> TRUE]>>
                      \o Tokenize(re, dict, SubSeq(s, Len(m.group) + 1, Len(s)), n - 1)
             ELSE <<[target |-> <<s[1]>>, matched |-> FALSE]>>
                      \o Tokenize(re, dict, Tail(s), n - 1)

\* One iteration of `while text:`
LoopStep(t) ==
    /\ pc[t] = "loop"
    /\ text[t] # <<>>
    /\ Len(tr_list[t]) < MaxSteps
    /\ LET m == RegexMatch(regexp, text[t])
       IN  IF m.hit
           THEN LET source == m.group
                IN  /\ g2p' = Touched(g2p, source)
                    /\ tr_list' = [tr_list EXCEPT ![t] =
                           Append(@, [target |-> TargetOf(g2p, source), matched |-> TRUE])]
                    /\ text' = [text EXCEPT ![t] = SubSeq(@, Len(source) + 1, Len(@))]
                    /\ UNCHANGED nils
           ELSE /\ tr_list' = [tr_list EXCEPT ![t] =
                       Append(@, [target |-> <<text[t][1]>>, matched |-> FALSE])]
                /\ nils' = Increment(nils, text[t][1])
                /\ text' = [text EXCEPT ![t] = Tail(@)]
                /\ UNCHANGED g2p
    /\ UNCHANGED <<cls, custom_map_file, post_file, engine, regexp, pc, input,
                   result, outcome, prev, wrapper, segVars, p2iVars,
                   genVars, getVars>>

\* the rules run first and the composition runs on what they wrote
FinalizeComposeFirst(joined) ==
    IF post_file # "None" THEN Process(NFC(joined)) ELSE NFC(joined)

\* an engine without a rule file that runs a default rule file
FinalizeDefaultRules(joined) ==
    NFC(ApplyRules(PostRules(IF post_file = "None" THEN "AB" ELSE post_file), joined))

\* `if self.postproc: text = self.postprocessor.process(text)`, then (ligatures
\* and normpunc are False) unicodedata.normalize("NFC", text)
Finalize(joined) ==
    LET posted == IF post_file # "None" THEN Process(joined) ELSE joined
    IN  NFC(posted)

\* After the loop: join, post-process, compose; back in transliterate with result.
Finish(t) ==
    /\ pc[t] = "loop"
    /\ text[t] = <<>>
    /\ wrapper[t]
    /\ result' = [result EXCEPT ![t] = Finalize(JoinTargets(tr_list[t]))]
    /\ pc' = [pc EXCEPT ![t] = "check"]
    /\ UNCHANGED <<cls, custom_map_file, post_file, engine, g2p, regexp, nils,
                   input, text, tr_list, outcome, prev, wrapper, segVars, p2iVars,
                   genVars, getVars>>

\* unknown_chars = {char: count for char, count in self.nils.items() if char not in (" ",)}
UnknownChars(tally) == [c \in DOMAIN tally \ {" "} |-> tally[c]]

\* a failure that still hands out what general_trans produced
VerdictBestEffort(unknown, res, txt, file) ==
    IF DOMAIN unknown # {}
    THEN [kind |-> "raise", value |-> <<res>>, tally |-> unknown,
          input |-> txt, map_file |-> file]
    ELSE [kind |-> "return", value |-> <<res>>, tally |-> EmptyMap,
          input |-> <<>>, map_file |-> ""]

\* What transliterate hands to its caller: the ValueError (no value) or the
\* result (value is the one-element list holding it).
Verdict(unknown, res, txt, file) ==
    IF DOMAIN unknown # {}
    THEN [kind |-> "raise", value |-> <<>>, tally |-> unknown,
          input |-> txt, map_file |-> file]
    ELSE [kind |-> "return", value |-> <<res>>, tally |-> EmptyMap,
          input |-> <<>>, map_file |-> ""]

Check(t) ==
    /\ pc[t] = "check"
    /\ LET v == Verdict(UnknownChars(nils), result[t], input[t], custom_map_file)
       IN  /\ outcome' = [outcome EXCEPT ![t] = v]
           /\ pc' = [pc EXCEPT ![t] = IF v.kind = "raise" THEN "raised" ELSE "returned"]
    /\ UNCHANGED <<cls, custom_map_file, post_file, engine, g2p, regexp, nils,
                   input, text, tr_list, result, prev, wrapper, segVars, p2iVars,
                   genVars, getVars>>

(***************************************************************************)
(* One caller: calls follow one another on the same engine.                *)
(***************************************************************************)
Next ==
    \/ Construct
    \/ \E txt \in Texts : Begin(1, txt)
    \/ LoopStep(1)
    \/ Finish(1)
    \/ Check(1)

Spec == Init /\ [][Next]_vars

(***************************************************************************)
(* Two callers on the same engine instance, one call each, their steps     *)
(* interleaved.                                                            *)
(***************************************************************************)
ConcChars == {"a", "b", " "}

ConcTexts == SeqsUpTo(ConcChars, MaxLen)

InitConc ==
    /\ Init
    /\ cls = "OpenJTalkLabelEpitran"
    /\ custom_map_file \in {"a_ab", "header"}
    /\ post_file = "None"

BeginOnce(t, txt) == pc[t] = "idle" /\ Begin(t, txt)

NextConc ==
    \/ Construct
    \/ \E t \in Threads, txt \in ConcTexts : BeginOnce(t, txt)
    \/ \E t \in Threads : LoopStep(t)
    \/ \E t \in Threads : Finish(t)
    \/ \E t \in Threads : Check(t)

SpecConc == InitConc /\ [][NextConc]_vars

(***************************************************************************)
(* split_by_silence_markers.  A label string is a sequence of atoms: the   *)
(* space, the letters "a" and "b", and the words "pau" and "sil".          *)
(***************************************************************************)
\* Longest label string handed to split_by_silence_markers, in atoms.
MaxLabels == 3

SegAtoms == {" ", "a", "b", "pau", "sil"}

LabelTexts == SeqsUpTo(SegAtoms, MaxLabels)

\* str.split(" "): one more piece than there are spaces, empty pieces kept
RECURSIVE SplitSpace(_)
SplitSpace(s) ==
    IF s = <<>> THEN << <<>> >>
    ELSE LET rest == SplitSpace(Tail(s))
         IN  IF Head(s) = " " THEN << <<>> >> \o rest
             ELSE << <<Head(s)>> \o Head(rest) >> \o Tail(rest)

\* " ".join(pieces)
RECURSIVE JoinSpace(_)
JoinSpace(pieces) ==
    IF pieces = <<>> THEN <<>>
    ELSE IF Len(pieces) = 1 THEN pieces[1]
         ELSE pieces[1] \o <<" ">> \o JoinSpace(Tail(pieces))

\* phoneme == "pau" or phoneme == "sil"
IsSilence(phoneme) == phoneme = <<"pau">> \/ phoneme = <<"sil">>

\* the for loop and the final append; `if current_segment:` is the truth value
\* of a list, false only for the list without elements
RECURSIVE SplitLoop(_, _, _)
SplitLoop(phonemes, segs, current_segment) ==
    IF phonemes = <<>>
    THEN IF current_segment # <<>> THEN Append(segs, JoinSpace(current_segment)) ELSE segs
    ELSE IF IsSilence(Head(phonemes))
         THEN IF current_segment # <<>>
              THEN SplitLoop(Tail(phonemes), Append(segs, JoinSpace(current_segment)), <<>>)
              ELSE SplitLoop(Tail(phonemes), segs, current_segment)
         ELSE SplitLoop(Tail(phonemes), segs, Append(current_segment, Head(phonemes)))

SplitBySilenceMarkers(labels) == SplitLoop(SplitSpace(labels), <<>>, <<>>)

InitSeg ==
    /\ Init
    /\ cls = "OpenJTalkLabelEpitran"
    /\ custom_map_file = "a_ab"
    /\ post_file = "None"

ChooseLabels(labels) ==
    /\ seg_pc = "start"
    /\ phoneme_labels = <<>>
    /\ segments = <<>>
    /\ phoneme_labels' = labels
    /\ UNCHANGED <<segments, seg_pc>>
    /\ UNCHANGED <<cls, custom_map_file, post_file, engine, g2p, regexp, nils,
                   pc, input, text, tr_list, result, outcome, prev, wrapper, p2iVars,
                   genVars, getVars>>

Split ==
    /\ seg_pc = "start"
    /\ segments' = SplitBySilenceMarkers(phoneme_labels)
    /\ seg_pc' = "done"
    /\ UNCHANGED phoneme_labels
    /\ UNCHANGED <<cls, custom_map_file, post_file, engine, g2p, regexp, nils,
                   pc, input, text, tr_list, result, outcome, prev, wrapper, p2iVars,
                   genVars, getVars>>

NextSeg ==
    \/ \E labels \in LabelTexts : ChooseLabels(labels)
    \/ Split

SpecSeg == InitSeg /\ [][NextSeg]_vars

(***************************************************************************)
(* The entry points side by side: the validating transliterate, general_trans *)
(* called on its own, and CustomEpitran, which keeps SimpleEpitran's       *)
(* transliterate and general_trans.  One call per engine.                  *)
(***************************************************************************)
VariantChars == {"a", "A", "b", "E", "y"}

VariantTexts == SeqsUpTo(VariantChars, MaxLen)

VariantFiles == {"a_ab", "ab_a", "case", "dup", "threecol"}

InitVariants == InitWith(VariantFiles, MorePostNames)

\* general_trans(text, filter_func) called directly: nothing clears the tally
\* before it and nothing reads the tally after it
BeginDirect(t, txt) ==
    /\ cls = "OpenJTalkLabelEpitran"
    /\ pc[t] = "idle"
    /\ EnterLoop(t, txt, NFD(txt), FALSE)
    /\ UNCHANGED <<nils, p2iVars>>

\* CustomEpitran.transliterate is SimpleEpitran's: general_trans with the
\* .lower() that OpenJTalkLabelEpitran removes
BeginCustom(t, txt) ==
    /\ cls = "CustomEpitran"
    /\ pc[t] = "idle"
    /\ EnterLoop(t, txt, NFD(Lower(txt)), FALSE)
    /\ UNCHANGED <<nils, p2iVars>>

\* After the loop of a call that did not come through the validating
\* transliterate: the finalized text is what the caller gets.
FinishDirect(t) ==
    /\ pc[t] = "loop"
    /\ text[t] = <<>>
    /\ ~wrapper[t]
    /\ LET res == Finalize(JoinTargets(tr_list[t]))
       IN  /\ result' = [result EXCEPT ![t] = res]
           /\ outcome' = [outcome EXCEPT ![t] =
                  [kind |-> "return", value |-> <<res>>, tally |-> EmptyMap,
                   input |-> <<>>, map_file |-> ""]]
    /\ pc' = [pc EXCEPT ![t] = "returned"]
    /\ UNCHANGED <<cls, custom_map_file, post_file, engine, g2p, regexp, nils,
                   input, text, tr_list, prev, wrapper, segVars, p2iVars,
                   genVars, getVars>>

NextVariants ==
    \/ Construct
    \/ \E txt \in VariantTexts : BeginOnce(1, txt)
    \/ \E txt \in VariantTexts : BeginDirect(1, txt)
    \/ \E txt \in VariantTexts : BeginCustom(1, txt)
    \/ LoopStep(1)
    \/ Finish(1)
    \/ FinishDirect(1)
    \/ Check(1)

SpecVariants == InitVariants /\ [][NextVariants]_vars

(***************************************************************************)
(* phoneme_labels_to_ipa on the module's engine (_get_epitran).  Label     *)
(* strings are sequences of atoms as in split_by_silence_markers.          *)
(***************************************************************************)
P2IWords == {<<>>, <<"a">>, <<"b">>, <<"pau">>}

\* label strings: up to MaxPieces words with one space between neighbours
P2ILabels == {JoinSpace(ws) : ws \in SeqsUpTo(P2IWords, MaxPieces)}

P2IFiles == {"a_ab", "empty", "absent"}

InitP2I ==
    /\ InitWith(P2IFiles, {"None", "AB"})
    /\ cls = "OpenJTalkLabelEpitran"

\* the characters of a string of atoms
RECURSIVE AtomChars(_)
AtomChars(s) ==
    IF s = <<>> THEN <<>>
    ELSE (CASE Head(s) = "pau" -> <<"p", "a", "u">>
            [] Head(s) = "sil" -> <<"s", "i", "l">>
            [] OTHER           -> <<Head(s)>>) \o AtomChars(Tail(s))

\* segment.replace(" ", "")
LabelsNoSpace(segment) == AtomChars(SelectSeq(segment, LAMBDA c : c # " "))

Raised(exc) == [kind |-> "raise", value |-> <<>>, tally |-> EmptyMap,
                input |-> <<>>, map_file |-> exc]

\* segments = split_by_silence_markers(phoneme_labels); epi = _get_epitran():
\* the engine is constructed when there is none yet, and its exception ends
\* the call with _epitran_instance still None
P2IStart(labels) ==
    /\ p2i_pc \in {"idle", "returned", "raised"}
    /\ p2i_labels' = labels
    /\ p2i_segments' = SplitBySilenceMarkers(labels)
    /\ ipa_segments' = <<>>
    /\ p2i_idx' = 1
    /\ IF engine = "ready"
       THEN /\ UNCHANGED <<engine, g2p, regexp, nils>>
            /\ p2i_pc' = "loop"
            /\ p2i_out' = NoOutcome
       ELSE /\ ConstructEngine
            /\ p2i_pc' = IF LoadG2pMap.exc = "none" THEN "loop" ELSE "raised"
            /\ p2i_out' = IF LoadG2pMap.exc = "none" THEN NoOutcome
                          ELSE Raised(LoadG2pMap.exc)
    /\ UNCHANGED <<cls, custom_map_file, post_file, pc, input, text, tr_list,
                   result, outcome, prev, wrapper, segVars,
                   genVars, getVars>>

\* one pass of `for segment in segments:` up to the call of transliterate; a
\* segment without labels is passed over
P2ICall ==
    /\ p2i_pc = "loop"
    /\ p2i_idx <= Len(p2i_segments)
    /\ LET labels_no_space == LabelsNoSpace(p2i_segments[p2i_idx])
       IN  IF labels_no_space # <<>>
           THEN /\ BeginCall(1, labels_no_space)
                /\ p2i_pc' = "call"
                /\ UNCHANGED <<p2i_labels, p2i_segments, p2i_idx, ipa_segments, p2i_out>>
           ELSE /\ p2i_idx' = p2i_idx + 1
                /\ UNCHANGED <<p2i_pc, p2i_labels, p2i_segments, ipa_segments, p2i_out>>
                /\ UNCHANGED <<cls, custom_map_file, post_file, engine, g2p, regexp,
                               nils, pc, input, text, tr_list, result, outcome, prev,
                               wrapper, segVars,
                   genVars, getVars>>

\* transliterate is back: ipa_segments.append(ipa), or its ValueError leaves
\* phoneme_labels_to_ipa; the frame of the finished call is gone
P2ICollect ==
    /\ p2i_pc = "call"
    /\ pc[1] \in {"returned", "raised"}
    /\ IF pc[1] = "returned"
       THEN /\ ipa_segments' = Append(ipa_segments, outcome[1].value[1])
            /\ p2i_idx' = p2i_idx + 1
            /\ p2i_pc' = "loop"
            /\ UNCHANGED p2i_out
       ELSE /\ p2i_out' = outcome[1]
            /\ p2i_pc' = "raised"
            /\ UNCHANGED <<ipa_segments, p2i_idx>>
    /\ pc' = [pc EXCEPT ![1] = "idle"]
    /\ input' = [input EXCEPT ![1] = <<>>]
    /\ tr_list' = [tr_list EXCEPT ![1] = <<>>]
    /\ result' = [result EXCEPT ![1] = <<>>]
    /\ outcome' = [outcome EXCEPT ![1] = NoOutcome]
    /\ UNCHANGED <<cls, custom_map_file, post_file, engine, g2p, regexp, nils,
                   text, prev, wrapper, segVars, genVars, getVars,
                   p2i_labels, p2i_segments>>

\* a join that closes the string with a separator
P2IReturnTrailing ==
    /\ p2i_pc = "loop"
    /\ p2i_idx > Len(p2i_segments)
    /\ p2i_out' = [kind |-> "return", value |-> <<JoinSpace(ipa_segments) \o <<" ">> >>,
                   tally |-> EmptyMap, input |-> <<>>, map_file |-> ""]
    /\ p2i_pc' = "returned"
    /\ UNCHANGED <<p2i_labels, p2i_segments, p2i_idx, ipa_segments>>
    /\ UNCHANGED <<cls, custom_map_file, post_file, engine, g2p, regexp, nils,
                   pc, input, text, tr_list, result, outcome, prev, wrapper, segVars,
                   genVars, getVars>>

\* return " ".join(ipa_segments)
P2IReturn ==
    /\ p2i_pc = "loop"
    /\ p2i_idx > Len(p2i_segments)
    /\ p2i_out' = [kind |-> "return", value |-> <<JoinSpace(ipa_segments)>>,
                   tally |-> EmptyMap, input |-> <<>>, map_file |-> ""]
    /\ p2i_pc' = "returned"
    /\ UNCHANGED <<p2i_labels, p2i_segments, p2i_idx, ipa_segments>>
    /\ UNCHANGED <<cls, custom_map_file, post_file, engine, g2p, regexp, nils,
                   pc, input, text, tr_list, result, outcome, prev, wrapper, segVars,
                   genVars, getVars>>

NextP2I ==
    \/ \E labels \in P2ILabels : P2IStart(labels)
    \/ P2ICall
    \/ LoopStep(1)
    \/ Finish(1)
    \/ Check(1)
    \/ P2ICollect
    \/ P2IReturn

SpecP2I == InitP2I /\ [][NextP2I]_vars

(***************************************************************************)
(* make_openjtalk_ipa_postprocess_map.py.  A line of the rule file is a    *)
(* sequence of atoms: "N" is a class name written `::name::`, "L" the      *)
(* length mark, "a" any other character of a value, and "=", "|", " " are  *)
(* themselves.                                                             *)
(***************************************************************************)
\* Longest value list of a generated line, in atoms.
MaxValueLen == 4

LinePrefixes == {<<>>, <<"a">>, <<"N">>, <<"N", "=">>, <<"N", " ", "=", " ">>,
                 <<" ", "N", "=">>}

SymbolLines ==
    {pre \o vals : pre \in LinePrefixes, vals \in SeqsUpTo({"a", "L", "|", " "}, MaxValueLen)}

\* str.split("|")
RECURSIVE SplitBar(_)
SplitBar(s) ==
    IF s = <<>> THEN << <<>> >>
    ELSE LET rest == SplitBar(Tail(s))
         IN  IF Head(s) = "|" THEN << <<>> >> \o rest
             ELSE << <<Head(s)>> \o Head(rest) >> \o Tail(rest)

\* "|".join(parts)
RECURSIVE JoinBar(_)
JoinBar(parts) ==
    IF parts = <<>> THEN <<>>
    ELSE IF Len(parts) = 1 THEN parts[1]
         ELSE parts[1] \o <<"|">> \o JoinBar(Tail(parts))

\* the number of spaces s starts with
RECURSIVE LeadingSpaces(_)
LeadingSpaces(s) ==
    IF s = <<>> \/ Head(s) # " " THEN 0 ELSE 1 + LeadingSpaces(Tail(s))

\* re.match(r"(::\w+::)\s*=\s*(.+)", line): [hit, name, values].  The second
\* \s* gives a space back when (.+) would otherwise have nothing to match.
SymbolMatch(line) ==
    LET miss == [hit |-> FALSE, name |-> <<>>, values |-> <<>>]
    IN  IF line = <<>> \/ line[1] # "N" THEN miss
        ELSE LET after == Tail(line)
                 eq    == LeadingSpaces(after) + 1
             IN  IF eq > Len(after) \/ after[eq] # "=" THEN miss
                 ELSE LET rest == SubSeq(after, eq + 1, Len(after))
                          sp   == LeadingSpaces(rest)
                      IN  IF rest = <<>> THEN miss
                          ELSE [hit |-> TRUE, name |-> <<"N">>,
                                values |-> IF sp = Len(rest) THEN <<" ">>
                                           ELSE SubSeq(rest, sp + 1, Len(rest))]

HasLengthMark(p) == \E i \in 1..Len(p) : p[i] = "L"

\* the function without its filter
KeepAllValues(line) ==
    LET m == SymbolMatch(line)
    IN  IF ~m.hit THEN line
        ELSE m.name \o <<" ", "=", " ">> \o JoinBar(SplitBar(m.values))

\* remove_long_vowels_from_symbol(line)
RemoveLongVowelsFromSymbol(line) ==
    LET m == SymbolMatch(line)
    IN  IF ~m.hit THEN line
        ELSE LET parts == SplitBar(m.values)
                 filtered_parts == SelectSeq(parts, LAMBDA p : ~HasLengthMark(p))
             IN  IF filtered_parts # <<>>
                 THEN m.name \o <<" ", "=", " ">> \o JoinBar(filtered_parts)
                 ELSE line

InitGen ==
    /\ InitWith({"a_ab"}, {"None"})
    /\ cls = "OpenJTalkLabelEpitran"

GenFrame ==
    UNCHANGED <<cls, custom_map_file, post_file, engine, g2p, regexp, nils,
                pc, input, text, tr_list, result, outcome, prev, wrapper,
                segVars, p2iVars, getVars>>

\* the caller picks the argument
GenChoose(arg) ==
    /\ gen_pc = "start"
    /\ gen_arg = <<>>
    /\ gen_arg' = arg
    /\ UNCHANGED <<gen_pc, gen_ret>>
    /\ GenFrame

CallRemoveLongVowels ==
    /\ gen_pc = "start"
    /\ gen_ret' = RemoveLongVowelsFromSymbol(gen_arg)
    /\ gen_pc' = "done"
    /\ UNCHANGED gen_arg
    /\ GenFrame

NextSymbol ==
    \/ \E line \in SymbolLines : GenChoose(line)
    \/ CallRemoveLongVowels

SpecSymbol == InitGen /\ [][NextSymbol]_vars

(***************************************************************************)
(* make_openjtalk_ipa_postprocess_map.main: the rule file read with        *)
(* readlines() is a sequence of lines.  Further atoms: "R1" .. "R7" are    *)
(* the texts of the seven long-vowel rules, "K1" and "K2" the texts of the *)
(* two comments, "r" the text of any other rule, "nl" the line feed.       *)
(***************************************************************************)
\* Most lines of a rule file handed to main.
MaxFileLines == 3

rules_to_remove == {"R1", "R2", "R3", "R4", "R5", "R6", "R7"}

comments_to_remove == {"K1", "K2"}

RuleFileLines ==
    {<<"R1", "nl">>, <<" ", "R7", " ", "nl">>, <<"R1", " ", "r", "nl">>,
     <<"K1", "nl">>, <<"K2">>,
     <<"r", "nl">>, <<"nl">>,
     <<"N", "=", "a", "|", "a", "L", "nl">>,
     <<"N", " ", "=", " ", "a", "nl">>,
     <<" ", "N", "=", "a", "nl">>,
     <<"N", "=", "a", "L">>}

RuleFiles == SeqsUpTo(RuleFileLines, MaxFileLines)

IsSpace(c) == c \in {" ", "nl"}

\* str.strip()
RECURSIVE Strip(_)
Strip(s) ==
    IF s = <<>> THEN <<>>
    ELSE IF IsSpace(Head(s)) THEN Strip(Tail(s))
         ELSE IF IsSpace(s[Len(s)]) THEN Strip(SubSeq(s, 1, Len(s) - 1))
              ELSE s

\* the loop of main with the comments left in
RECURSIVE OutputLinesKeepComments(_)
OutputLinesKeepComments(lines) ==
    IF lines = <<>> THEN <<>>
    ELSE LET line     == Head(lines)
             stripped == Strip(line)
             new_line == RemoveLongVowelsFromSymbol(stripped)
         IN  IF stripped \in {<<r>> : r \in rules_to_remove}
             THEN OutputLinesKeepComments(Tail(lines))
             ELSE IF /\ stripped # <<>>
                     /\ stripped[1] = "N"
                     /\ \E i \in 1..Len(stripped) : stripped[i] = "="
                     /\ new_line # stripped
                  THEN <<new_line \o <<"nl">> >> \o OutputLinesKeepComments(Tail(lines))
                  ELSE <<line>> \o OutputLinesKeepComments(Tail(lines))

\* `for line in lines:` of main: output_lines
RECURSIVE OutputLines(_)
OutputLines(lines) ==
    IF lines = <<>> THEN <<>>
    ELSE LET line     == Head(lines)
             stripped == Strip(line)
             new_line == RemoveLongVowelsFromSymbol(stripped)
         IN  IF stripped \in {<<r>> : r \in rules_to_remove}
             THEN OutputLines(Tail(lines))
             ELSE IF stripped \in {<<k>> : k \in comments_to_remove}
                  THEN OutputLines(Tail(lines))
                  ELSE IF /\ stripped # <<>>
                          /\ stripped[1] = "N"       \* startswith("::")
                          /\ \E i \in 1..Len(stripped) : stripped[i] = "="
                          /\ new_line # stripped
                       THEN <<new_line \o <<"nl">> >> \o OutputLines(Tail(lines))
                       ELSE <<line>> \o OutputLines(Tail(lines))

\* main: the lines written to the output file
GeneratePostprocess ==
    /\ gen_pc = "start"
    /\ gen_ret' = OutputLines(gen_arg)
    /\ gen_pc' = "done"
    /\ UNCHANGED gen_arg
    /\ GenFrame

NextPostprocess ==
    \/ \E lines \in RuleFiles : GenChoose(lines)
    \/ GeneratePostprocess

SpecPostprocess == InitGen /\ [][NextPostprocess]_vars

(***************************************************************************)
(* make_openjtalk_ipa_map: labels and IPA values are sequences of          *)
(* characters.  In a label "A", "I", "U", "E", "O" are the capitals of the *)
(* five vowels; in an IPA value "M" is the unrounded u (U+026F) and "D"    *)
(* the devoicing mark U+0325.  A dict is the sequence of its               *)
(* <<key, value>> items in insertion order.                                *)
(***************************************************************************)
\* Longest IPA string handed to add_voiceless_diacritic on its own.
MaxIpaLen == 4

\* Most entries of the mora list.
MaxMoras == 3

\* the members of `vowels` that the strings of the model are made of
vowels == {"a", "e", "i", "o", "u", "M", "y"}

IpaChars == {"a", "M", "k", "D"}

IpaStrings == SeqsUpTo(IpaChars, MaxIpaLen)

\* a version that marks the first vowel
RECURSIVE AddVoicelessFirstVowel(_)
AddVoicelessFirstVowel(ipa) ==
    IF ipa = <<>> THEN <<>>
    ELSE IF Head(ipa) \in vowels THEN <<Head(ipa), "D">> \o Tail(ipa)
         ELSE <<Head(ipa)>> \o AddVoicelessFirstVowel(Tail(ipa))

\* add_voiceless_diacritic: `for i in range(len(result) - 1, -1, -1)`
RECURSIVE AddVoicelessDiacritic(_)
AddVoicelessDiacritic(ipa) ==
    IF ipa = <<>> THEN ipa
    ELSE LET n == Len(ipa)
         IN  IF ipa[n] \in vowels
             THEN Append(ipa, "D")
             ELSE Append(AddVoicelessDiacritic(SubSeq(ipa, 1, n - 1)), ipa[n])

CallAddVoiceless ==
    /\ gen_pc = "start"
    /\ gen_ret' = AddVoicelessDiacritic(gen_arg)
    /\ gen_pc' = "done"
    /\ UNCHANGED gen_arg
    /\ GenFrame

NextVoiceless ==
    \/ \E ipa \in IpaStrings : GenChoose(ipa)
    \/ CallAddVoiceless

SpecVoiceless == InitGen /\ [][NextVoiceless]_vars

\* vowel.upper() for the five vowels
Upper(v) ==
    CASE v = <<"a">> -> <<"A">>
      [] v = <<"i">> -> <<"I">>
      [] v = <<"u">> -> <<"U">>
      [] v = <<"e">> -> <<"E">>
      [] v = <<"o">> -> <<"O">>
      [] OTHER -> v

\* entries (kana, consonant, vowel) that _mora_list_minimum can hold; the
\* consonant None is <<>>
MoraEntries ==
    {<<"VA", <<"v">>, <<"a">> >>, <<"VU", <<"v">>, <<"u">> >>,
     <<"KA", <<"k">>, <<"a">> >>, <<"KYA", <<"k", "y">>, <<"a">> >>,
     <<"I", <<>>, <<"i">> >>, <<"WI", <<>>, <<"i">> >>,
     <<"NN", <<>>, <<"N">> >>}

MoraLists == SeqsUpTo(MoraEntries, MaxMoras)

\* load_kana_to_ipa_map: the kana tables the generator may read
KanaTables == {"full", "partial", "none"}

kana_to_ipa(table) ==
    CASE table = "full" ->
             [k \in {"VA", "VU", "KA", "KYA", "I", "WI", "NN"} |->
                 CASE k = "VA"  -> <<"b", "a">>
                   [] k = "VU"  -> <<"b", "M">>
                   [] k = "KA"  -> <<"k", "a">>
                   [] k = "KYA" -> <<"k", "j", "a">>
                   [] k = "I"   -> <<"i">>
                   [] k = "WI"  -> <<"i", "j">>
                   [] k = "NN"  -> <<"n">>]
      [] table = "partial" ->
             [k \in {"KA", "VA"} |->
                 IF k = "KA" THEN <<"k", "a">> ELSE <<"v", "a", "a">>]
      [] table = "none" -> [k \in {} |-> <<>>]

DictKeys(d) == {d[i][1] : i \in 1..Len(d)}

\* d[key] = value: an existing key keeps its place
DictSet(d, key, value) ==
    IF key \in DictKeys(d)
    THEN [i \in 1..Len(d) |-> IF d[i][1] = key THEN <<key, value>> ELSE d[i]]
    ELSE Append(d, <<key, value>>)

\* an update that leaves the keys the dict already has
RECURSIVE DictUpdateMissing(_, _)
DictUpdateMissing(d, items) ==
    IF items = <<>> THEN d
    ELSE DictUpdateMissing(IF Head(items)[1] \in DictKeys(d) THEN d
                           ELSE Append(d, Head(items)),
                           Tail(items))

\* dict.update
RECURSIVE DictUpdate(_, _)
DictUpdate(d, items) ==
    IF items = <<>> THEN d
    ELSE DictUpdate(DictSet(d, Head(items)[1], Head(items)[2]), Tail(items))

\* `for kana, consonant, vowel in _mora_list_minimum:`
RECURSIVE DeriveLabels(_, _, _)
DeriveLabels(d, moras, table) ==
    IF moras = <<>> THEN d
    ELSE LET kana            == Head(moras)[1]
             consonant       == Head(moras)[2]
             vowel           == Head(moras)[3]
             openjtalk_label == consonant \o vowel
             ipa             == kana_to_ipa(table)[kana]
             withLabel       == DictSet(d, openjtalk_label, ipa)
             withVoiceless   ==
                 IF vowel \in {<<"a">>, <<"i">>, <<"u">>, <<"e">>, <<"o">>}
                 THEN DictSet(withLabel, consonant \o Upper(vowel),
                              AddVoicelessDiacritic(ipa))
                 ELSE withLabel
         IN  IF kana \in DOMAIN kana_to_ipa(table)
             THEN DeriveLabels(withVoiceless, Tail(moras), table)
             ELSE DeriveLabels(d, Tail(moras), table)

v_overrides ==
    << <<<<"v", "a">>, <<"v", "a">> >>, <<<<"v", "A">>, <<"v", "a", "D">> >>,
       <<<<"v", "i">>, <<"v", "i">> >>, <<<<"v", "I">>, <<"v", "i", "D">> >>,
       <<<<"v", "u">>, <<"v", "M">> >>, <<<<"v", "U">>, <<"v", "M", "D">> >>,
       <<<<"v", "e">>, <<"v", "e">> >>, <<<<"v", "E">>, <<"v", "e", "D">> >>,
       <<<<"v", "o">>, <<"v", "o">> >>, <<<<"v", "O">>, <<"v", "o", "D">> >> >>

openjtalk_to_ipa(moras, table) ==
    DictUpdate(DeriveLabels(<<>>, moras, table), v_overrides)

\* the items whose key has at most n characters, longest keys first
RECURSIVE LongestFirst(_, _)
LongestFirst(d, n) ==
    IF n = 0 THEN <<>>
    ELSE SelectSeq(d, LAMBDA item : Len(item[1]) = n) \o LongestFirst(d, n - 1)

\* the rows written in the order the dict holds them
InsertionOrder(d) == d

\* sorted(openjtalk_to_ipa.keys(), key=len, reverse=True), with the values
SortedByLength(d) ==
    LET lens == {Len(d[i][1]) : i \in 1..Len(d)}
    IN  IF d = <<>> THEN <<>>
        ELSE LongestFirst(d, CHOOSE n \in lens : \A m \in lens : m <= n)

\* main: the data rows written after the header Orth,Phon
GenerateIpaMap ==
    /\ gen_pc = "start"
    /\ gen_arg # <<>>
    /\ gen_ret' = SortedByLength(openjtalk_to_ipa(gen_arg[1], gen_arg[2]))
    /\ gen_pc' = "done"
    /\ UNCHANGED gen_arg
    /\ GenFrame

NextIpaMap ==
    \/ \E moras \in MoraLists, table \in KanaTables : GenChoose(<<moras, table>>)
    \/ GenerateIpaMap

SpecIpaMap == InitGen /\ [][NextIpaMap]_vars

(***************************************************************************)
(* check_eitango.get_alignment.  Words and ARPABET phonemes are whole      *)
(* strings.  The standard output of lex_lookup is a sequence of atoms: a   *)
(* phoneme, "(", ")", " " or "nl"; a run that raises is the name of the    *)
(* exception.  The entries carry the fields arpabet, arpabet_clean, ipa    *)
(* and meta (<<>> when the entry has no `_meta`); the fields xsampa and    *)
(* segments are computed from ipa by epitran and panphon objects and are   *)
(* not carried.                                                            *)
(***************************************************************************)
EitangoWords == {"hello", "Hello", "a", "zzz", "nihongo"}

\* word.lower()
WordLower(word) == IF word = "Hello" THEN "hello" ELSE word

CMUDICT ==
    [w \in {"hello", "a"} |->
        IF w = "hello" THEN << <<"HH", "AH0", "L", "OW1">>, <<"HH", "EH0", "L", "OW1">> >>
        ELSE << <<"AH0">> >>]

\* what subprocess.check_output(["lex_lookup", word_lower]) gives
LexLookupRuns ==
    {<<"FileNotFoundError">>, <<"CalledProcessError">>,
     <<"(", "hh", " ", "ax", " ", "l", " ", "ow1", ")", "nl">>,
     <<"(", "ax", ")", "nl", "(", "hh", ")", "nl">>,
     <<"hh", " ", "ow1", "nl">>,
     <<"nil", "nl">>,
     <<"(", ")", "nl">>,
     <<"nl">>,
     <<>>}

\* get_arpabet_from_cmudict: <<>> is None
get_arpabet_from_cmudict(word) ==
    IF WordLower(word) \in DOMAIN CMUDICT
    THEN << CMUDICT[WordLower(word)][1], CMUDICT[WordLower(word)] >>
    ELSE <<>>

\* arpa_text.splitlines()[0]
RECURSIVE FirstLine(_)
FirstLine(s) ==
    IF s = <<>> \/ Head(s) = "nl" THEN <<>>
    ELSE <<Head(s)>> \o FirstLine(Tail(s))

\* p.upper()
ArpaUpper(p) ==
    CASE p = "hh"  -> "HH"
      [] p = "ax"  -> "AX"
      [] p = "l"   -> "L"
      [] p = "ow1" -> "OW1"
      [] p = "nil" -> "NIL"
      [] OTHER -> p

\* get_arpabet_from_flite: [none |-> TRUE] is None, else [none |-> FALSE, arpa |-> list]
get_arpabet_from_flite(run) ==
    IF run \in {<<"FileNotFoundError">>, <<"CalledProcessError">>}
    THEN [none |-> TRUE, arpa |-> <<>>]
    ELSE LET arpa_text == Strip(run)
             first     == FirstLine(arpa_text)
             arpa_raw  == IF /\ first # <<>>
                             /\ first[1] = "("
                             /\ first[Len(first)] = ")"
                          THEN SubSeq(first, 2, Len(first) - 1)
                          ELSE first
             parts     == SelectSeq(arpa_raw, LAMBDA c : ~IsSpace(c))
         IN  IF arpa_text = <<>>
             THEN [none |-> TRUE, arpa |-> <<>>]
             ELSE [none |-> FALSE,
                   arpa |-> [i \in 1..Len(parts) |-> ArpaUpper(parts[i])]]

\* remove_stress(arpa).lower()
ArpaClean(arpa) ==
    CASE arpa = "HH"  -> "hh"
      [] arpa = "AH0" -> "ah"
      [] arpa = "EH0" -> "eh"
      [] arpa = "AX"  -> "ax"
      [] arpa = "L"   -> "l"
      [] arpa = "OW1" -> "ow"
      [] arpa = "NIL" -> "nil"
      [] OTHER -> arpa

\* FLITE.arpa_map.get(arpa_clean, ""); the IPA values are written in ASCII
ArpaMapGet(arpa_clean) ==
    CASE arpa_clean = "hh" -> "h"
      [] arpa_clean = "ah" -> "V"
      [] arpa_clean = "eh" -> "E"
      [] arpa_clean = "ax" -> "@"
      [] arpa_clean = "l"  -> "l"
      [] arpa_clean = "ow" -> "oU"
      [] OTHER -> ""

ErrorEntry == [error |-> "lookup failed"]

\* `for arpa in arpa_list:` and the `_meta` of the first entry
ResultList(arpa_list, word, source, all_pronunciations) ==
    [i \in 1..Len(arpa_list) |->
        [arpabet       |-> arpa_list[i],
         arpabet_clean |-> ArpaClean(arpa_list[i]),
         ipa           |-> ArpaMapGet(ArpaClean(arpa_list[i])),
         meta          |-> IF i = 1
                           THEN <<[word |-> word, source |-> source,
                                   all_pronunciations |-> all_pronunciations]>>
                           ELSE <<>>]]

\* get_alignment: the list returned and the sources that were asked
GetAlignment(word, use_flite, run) ==
    LET fromDict  == get_arpabet_from_cmudict(word)
        fromFlite == get_arpabet_from_flite(run)
    IN  IF use_flite
        THEN IF ~fromFlite.none
             THEN [result |-> ResultList(fromFlite.arpa, word, "flite", <<>>),
                   consulted |-> {"flite"}]
             ELSE [result |-> <<ErrorEntry>>, consulted |-> {"flite"}]
        ELSE IF fromDict # <<>>
             THEN [result |-> ResultList(fromDict[1], word, "cmudict", fromDict[2]),
                   consulted |-> {"cmudict"}]
             ELSE IF ~fromFlite.none
                  THEN [result |-> ResultList(fromFlite.arpa, word, "flite", <<>>),
                        consulted |-> {"cmudict", "flite"}]
                  ELSE [result |-> <<ErrorEntry>>,
                        consulted |-> {"cmudict", "flite"}]

CallGetAlignment ==
    /\ gen_pc = "start"
    /\ gen_arg # <<>>
    /\ gen_ret' = GetAlignment(gen_arg[1], gen_arg[2], gen_arg[3])
    /\ gen_pc' = "done"
    /\ UNCHANGED gen_arg
    /\ GenFrame

\* print_basic_alignment after its call of get_alignment: the error branch,
\* else alignment[0].get("_meta", {}), an IndexError on an empty list
PrintBasicAlignment ==
    /\ gen_pc = "done"
    /\ gen_pc' = IF gen_ret.result # <<>> /\ "error" \in DOMAIN gen_ret.result[1]
                 THEN "printed_error"
                 ELSE IF gen_ret.result = <<>> THEN "IndexError"
                      ELSE "printed"
    /\ UNCHANGED <<gen_arg, gen_ret>>
    /\ GenFrame

NextAlignment ==
    \/ \E word \in EitangoWords, use_flite \in BOOLEAN, run \in LexLookupRuns :
           GenChoose(<<word, use_flite, run>>)
    \/ CallGetAlignment
    \/ PrintBasicAlignment

SpecAlignment == InitGen /\ [][NextAlignment]_vars

(***************************************************************************)
(* _get_epitran with callers that may overlap.  The function is three      *)
(* steps for a caller: the test of the global, the construction with the   *)
(* store into the global, and the return, which reads the global again.    *)
(* The engine variables hold the state of the engine the global refers to. *)
(***************************************************************************)
\* Most calls of _get_epitran one caller makes.
MaxCalls == 2

InitGet ==
    /\ InitWith({"a_ab", "empty"}, {"None"})
    /\ cls = "OpenJTalkLabelEpitran"

GetFrame ==
    UNCHANGED <<cls, custom_map_file, post_file, pc, input, text, tr_list,
                result, outcome, prev, wrapper, segVars, p2iVars, genVars>>

\* `if _epitran_instance is None:`
GetTest(t) ==
    /\ get_pc[t] \in {"idle", "returned", "raised"}
    /\ calls[t] < MaxCalls
    /\ calls' = [calls EXCEPT ![t] = @ + 1]
    /\ get_pc' = [get_pc EXCEPT ![t] = IF epitran_instance = 0 THEN "construct"
                                       ELSE "return"]
    /\ UNCHANGED <<epitran_instance, made, new_instance, handed>>
    /\ UNCHANGED <<engine, g2p, regexp, nils>>
    /\ GetFrame

\* OpenJTalkLabelEpitran(_MAP_FILE, post_file=_POST_FILE): a new engine, or the
\* constructor's exception, which leaves _get_epitran
GetConstruct(t) ==
    /\ get_pc[t] = "construct"
    /\ IF LoadG2pMap.exc # "none"
       THEN /\ get_pc' = [get_pc EXCEPT ![t] = "raised"]
            /\ UNCHANGED <<made, new_instance>>
       ELSE /\ made' = made + 1
            /\ new_instance' = [new_instance EXCEPT ![t] = made + 1]
            /\ get_pc' = [get_pc EXCEPT ![t] = "store"]
    /\ UNCHANGED <<epitran_instance, handed, calls>>
    /\ UNCHANGED <<engine, g2p, regexp, nils>>
    /\ GetFrame

\* `_epitran_instance = ...`: the global now refers to the caller's engine
GetStore(t) ==
    /\ get_pc[t] = "store"
    /\ epitran_instance' = new_instance[t]
    /\ ConstructEngine
    /\ new_instance' = [new_instance EXCEPT ![t] = 0]
    /\ get_pc' = [get_pc EXCEPT ![t] = "return"]
    /\ UNCHANGED <<made, handed, calls>>
    /\ GetFrame

\* `return _epitran_instance`
GetReturn(t) ==
    /\ get_pc[t] = "return"
    /\ handed' = handed \cup {epitran_instance}
    /\ get_pc' = [get_pc EXCEPT ![t] = "returned"]
    /\ UNCHANGED <<epitran_instance, made, new_instance, calls>>
    /\ UNCHANGED <<engine, g2p, regexp, nils>>
    /\ GetFrame

NextGet ==
    \/ \E t \in Threads : GetTest(t)
    \/ \E t \in Threads : GetConstruct(t)
    \/ \E t \in Threads : GetStore(t)
    \/ \E t \in Threads : GetReturn(t)

SpecGet == InitGet /\ [][NextGet]_vars

(***************************************************************************)
(* Properties                                                              *)
(***************************************************************************)
Callers == {t \in Threads : pc[t] # "idle"}

Finished == {t \in Threads : pc[t] \in {"returned", "raised"}}

\* the table _load_g2p_map returned when the engine was constructed
LoadedTable == DictOf(LoadG2pMap.od)

CountOf(c, s) == Cardinality({i \in 1..Len(s) : s[i] = c})

\* the tally the unmatched tokens of one tr_list amount to, separators left out
OwnTally(toks) ==
    LET missed == {i \in 1..Len(toks) : ~toks[i].matched}
    IN  [c \in {toks[i].target[1] : i \in missed} \ {" "} |->
             Cardinality({i \in missed : toks[i].target = <<c>>})]

\* the symbols of s no table key covers, reading left to right and taking the
\* longest key that starts at each position
RECURSIVE Uncovered(_, _)
Uncovered(keys, s) ==
    IF s = <<>> THEN <<>>
    ELSE LET here == {k \in keys : k # <<>> /\ IsPrefix(k, s)}
         IN  IF here = {} THEN <<s[1]>> \o Uncovered(keys, Tail(s))
             ELSE LET k == CHOOSE k \in here : \A j \in here : Len(j) <= Len(k)
                  IN  Uncovered(keys, SubSeq(s, Len(k) + 1, Len(s)))

ExpectedTally(keys, s) ==
    LET u == Uncovered(keys, s)
    IN  [c \in {u[i] : i \in 1..Len(u)} \ {" "} |-> CountOf(c, u)]

\* a tokenizer iteration of caller t has just run
Stepped(t) ==
    /\ pc[t] = "loop"
    /\ pc'[t] = "loop"
    /\ Len(tr_list'[t]) = Len(tr_list[t]) + 1

\* C1: at every tokenizer step where some table key is a prefix of the
\* remaining text, the consumed source is such a key, no key that is a prefix is
\* longer, and the token is a matched one carrying that key's first target; where
\* no key is a prefix, exactly one character is consumed and passed through.
C1_LongestMatch ==
    [][\A t \in Threads : Stepped(t) =>
          LET consumed == SubSeq(text[t], 1, Len(text[t]) - Len(text'[t]))
              token    == tr_list'[t][Len(tr_list'[t])]
              here     == {k \in DOMAIN g2p : IsPrefix(k, text[t])}
          IN  /\ text[t] = consumed \o text'[t]
              /\ IF here # {}
                 THEN /\ consumed \in here
                      /\ \A k \in here : Len(k) <= Len(consumed)
                      /\ token.matched
                      /\ g2p[consumed] # <<>> => token.target = g2p[consumed][1]
                 ELSE /\ consumed = <<text[t][1]>>
                      /\ token.target = consumed]_vars

\* C1 witness: with the keys "a" and "ab", the input "ab" was consumed as the
\* one token "ab".
C1_Witness ==
    /\ custom_map_file = "a_ab"
    /\ pc[1] = "loop"
    /\ input[1] = <<"a", "b">>
    /\ text[1] = <<>>
    /\ tr_list[1] = <<[target |-> <<"y">>, matched |-> TRUE]>>

\* C2: a finished transliterate call has failed if and only if some
\* non-separator symbol of its (decomposed) input is covered by no key of the
\* loaded table, and the tally of the failure counts exactly those symbols.
C2_ValidationContract ==
    \A t \in Finished :
        LET expected == ExpectedTally(DOMAIN LoadedTable, NFD(input[t]))
        IN  /\ outcome[t].kind = "raise" <=> DOMAIN expected # {}
            /\ outcome[t].kind = "raise" => outcome[t].tally = expected

\* C3: a failed call carries the offending symbols with their counts (the
\* unmatched non-separator tokens of this call), the text as it was passed
\* in and the mapping file of the engine, and hands out no value.
C3_FailureCarries ==
    \A t \in Threads :
        outcome[t].kind = "raise" =>
            /\ pc[t] = "raised"
            /\ DOMAIN outcome[t].tally # {}
            /\ outcome[t].tally = OwnTally(tr_list[t])
            /\ outcome[t].input = input[t]
            /\ outcome[t].map_file = custom_map_file
            /\ outcome[t].value = <<>>

\* C3 witness: a failure whose input differs from its decomposed form, raised
\* although general_trans had produced a non-empty result.
C3_Witness ==
    /\ outcome[1].kind = "raise"
    /\ input[1] # NFD(input[1])
    /\ result[1] # <<>>
    /\ outcome[1].input = input[1]

\* C4: when calls follow one another, the tally during and after a call, and
\* the tally of its failure, hold no symbol more often than the (decomposed)
\* input of that call contains it; in particular no symbol foreign to it.
C4_TallyIsolation ==
    \A t \in Callers :
        /\ \A c \in DOMAIN nils : nils[c] <= CountOf(c, NFD(input[t]))
        /\ \A c \in DOMAIN outcome[t].tally :
               outcome[t].tally[c] <= CountOf(c, NFD(input[t]))

\* C4 witness: the call after a failed call has returned normally.
C4_Witness ==
    /\ custom_map_file = "a_ab"
    /\ prev[1] = "raise"
    /\ pc[1] = "returned"
    /\ input[1] # <<>>
    /\ outcome[1].kind = "return"

\* C5: when two calls overlap, each finished call has failed if and only if
\* its own tokens include an unmatched non-separator symbol, and its failure
\* reports exactly its own unmatched symbols and counts.
C5_ConcurrentIsolation ==
    \A t \in Finished :
        /\ outcome[t].kind = "raise" <=> DOMAIN OwnTally(tr_list[t]) # {}
        /\ outcome[t].kind = "raise" => outcome[t].tally = OwnTally(tr_list[t])

\* C6: once the engine is constructed, the table and the match set stay what
\* the loader and _construct_regex produced, whatever calls are made.
C6_TableImmutable ==
    engine = "ready" =>
        /\ g2p = LoadedTable
        /\ regexp = IF cls = "OpenJTalkLabelEpitran"
                    THEN ConstructRegex(KeysInOrder(LoadG2pMap.od))
                    ELSE ConstructRegexParent(KeysInOrder(LoadG2pMap.od))

\* a data row the loaders can take: at least a source and a target column
RowParses(row) == Len(row) >= 2

\* C7: construction never raises, whatever the mapping file, and the table of
\* the engine has exactly the sources of the rows that parse.
C7_LoadPermissive ==
    /\ engine \in {"new", "ready"}
    /\ engine = "ready" =>
           LET rows == IF FileExists(custom_map_file) /\ FileRows(custom_map_file) # <<>>
                       THEN Tail(FileRows(custom_map_file)) ELSE <<>>
           IN  DOMAIN LoadedTable =
                   {NFD(rows[i][1]) : i \in {j \in 1..Len(rows) : RowParses(rows[j])}}

\* C8: with an empty table every token is an unmatched one, and a finished
\* call whose input has a non-separator symbol has failed.
C8_EmptyTableAllUnmatched ==
    DOMAIN LoadedTable = {} =>
        /\ \A t \in Callers : \A i \in 1..Len(tr_list[t]) : ~tr_list[t][i].matched
        /\ \A t \in Finished :
               (\E i \in 1..Len(input[t]) : input[t][i] # " ") => outcome[t].kind = "raise"

\* C9: every tokenizer step leaves the remaining text strictly shorter.
C9_LoopShortens ==
    [][\A t \in Threads : Stepped(t) => Len(text'[t]) < Len(text[t])]_vars

\* the labels of a label string: its pieces between spaces, empty pieces left out
LabelsOf(s) == SelectSeq(SplitSpace(s), LAMBDA l : l # <<>>)

RECURSIVE Flatten(_)
Flatten(ss) == IF ss = <<>> THEN <<>> ELSE Head(ss) \o Flatten(Tail(ss))

\* C10: the returned segments are non-empty, hold no "pau" or "sil" label,
\* and together hold the non-delimiter labels of the input in input order, cut
\* exactly where a delimiter stood.
C10_Segmentation ==
    seg_pc = "done" =>
        /\ \A i \in 1..Len(segments) : segments[i] # <<>>
        /\ \A i \in 1..Len(segments) :
               \A j \in 1..Len(LabelsOf(segments[i])) : ~IsSilence(LabelsOf(segments[i])[j])
        /\ Flatten([i \in 1..Len(segments) |-> LabelsOf(segments[i])])
               = SelectSeq(LabelsOf(phoneme_labels), LAMBDA l : ~IsSilence(l))
        /\ Len(segments) <= 1 + Cardinality({j \in 1..Len(LabelsOf(phoneme_labels)) :
                                                 IsSilence(LabelsOf(phoneme_labels)[j])})

\* the tokens of s under a table: at each position the longest key that starts
\* there gives a matched token with its first target, and where no key starts
\* the symbol itself is an unmatched token
RECURSIVE RefTokens(_, _)
RefTokens(dict, s) ==
    IF s = <<>> THEN <<>>
    ELSE LET here == {k \in DOMAIN dict : k # <<>> /\ IsPrefix(k, s)}
         IN  IF here = {}
             THEN <<[target |-> <<s[1]>>, matched |-> FALSE]>> \o RefTokens(dict, Tail(s))
             ELSE LET k == CHOOSE k \in here : \A j \in here : Len(j) <= Len(k)
                  IN  <<[target |-> dict[k][1], matched |-> TRUE]>>
                          \o RefTokens(dict, SubSeq(s, Len(k) + 1, Len(s)))

\* what one transliteration of s gives: decompose, tokenize, concatenate the
\* targets, run the rules of the rule file in order, compose
RefOutput(s) ==
    NFC(ApplyRules(PostRules(post_file), JoinTargets(RefTokens(LoadedTable, NFD(s)))))

\* the outputs of the segments that hold a label, in segment order
RefOutputs(segs) ==
    LET labelled == SelectSeq(segs, LAMBDA g : LabelsNoSpace(g) # <<>>)
    IN  [i \in 1..Len(labelled) |-> RefOutput(LabelsNoSpace(labelled[i]))]

\* outs with one separator between neighbours
RECURSIVE Separated(_)
Separated(outs) ==
    IF Len(outs) = 0 THEN <<>>
    ELSE IF Len(outs) = 1 THEN outs[1]
         ELSE Separated(SubSeq(outs, 1, Len(outs) - 1)) \o <<" ">> \o outs[Len(outs)]

\* C11: what phoneme_labels_to_ipa returns is the outputs of its segments in
\* segment order with exactly one space between neighbours; it neither starts
\* nor ends with a space, and holds no space when a single segment was
\* transliterated.
C11_Join ==
    p2i_pc = "returned" =>
        LET outs == RefOutputs(SplitBySilenceMarkers(p2i_labels))
            ret  == p2i_out.value[1]
        IN  /\ p2i_out.kind = "return"
            /\ ret = Separated(outs)
            /\ ret # <<>> => ret[1] # " " /\ ret[Len(ret)] # " "
            /\ Len(outs) = 1 => ret = outs[1]
            /\ CountOf(" ", ret) = IF Len(outs) = 0 THEN 0 ELSE Len(outs) - 1

\* C11 witness: "a pau a" came back as the two outputs with one space between
\* them.
C11_Witness ==
    /\ p2i_pc = "returned"
    /\ p2i_labels = <<"a", " ", "pau", " ", "a">>
    /\ Len(ipa_segments) = 2
    /\ p2i_out.value[1] = ipa_segments[1] \o <<" ">> \o ipa_segments[2]

\* C12: a transliterate call on the empty string has returned the empty string
\* and left the tally empty, and so has phoneme_labels_to_ipa("") whenever it
\* has finished on an engine that could be constructed; neither has failed.
C12_EmptyInput ==
    /\ \A t \in Finished :
           input[t] = <<>> =>
               /\ outcome[t].kind = "return"
               /\ outcome[t].value = << <<>> >>
               /\ nils = EmptyMap
    /\ (engine = "ready" /\ p2i_pc \in {"returned", "raised"} /\ p2i_labels = <<>>) =>
           /\ p2i_out.kind = "return"
           /\ p2i_out.value = << <<>> >>
           /\ nils = EmptyMap

\* the text after the first k rules: rule k rewrites what rule k - 1 left
RECURSIVE RuleStage(_, _, _)
RuleStage(rules, s, k) ==
    IF k = 0 THEN s
    ELSE ReplaceAll(RuleStage(rules, s, k - 1), rules[k].pat, rules[k].rep)

\* C13: the result of a call is (the composed form of) the token concatenation
\* after every rule of the rule file ran once, in file order, each on the text
\* the rule before it left; with the rules [x->y, y->z] the concatenation "x"
\* gives "z", and with the rules [y->z, x->y] it gives "y".
C13_RuleOrder ==
    \A t \in Threads :
        pc[t] \in {"check", "returned", "raised"} =>
            LET joined == JoinTargets(tr_list[t])
                rules  == PostRules(post_file)
            IN  /\ result[t] = NFC(RuleStage(rules, joined, Len(rules)))
                /\ (joined = <<"x">> /\ post_file = "AB") => result[t] = <<"z">>
                /\ (joined = <<"x">> /\ post_file = "BA") => result[t] = <<"y">>

\* C13 witness: under the rule order [y->z, x->y] the token "x" came out as "y".
C13_Witness ==
    /\ post_file = "BA"
    /\ pc[1] = "returned"
    /\ tr_list[1] = <<[target |-> <<"x">>, matched |-> TRUE]>>
    /\ outcome[1].value = << <<"y">> >>

\* the tally the unmatched tokens of one tr_list amount to
FullTally(toks) ==
    LET missed == {i \in 1..Len(toks) : ~toks[i].matched}
    IN  [c \in {toks[i].target[1] : i \in missed} |->
             Cardinality({i \in missed : toks[i].target = <<c>>})]

\* the text general_trans starts from: decomposed, and lower-cased first in the
\* class that keeps SimpleEpitran's general_trans
Normalized(txt) == IF cls = "OpenJTalkLabelEpitran" THEN NFD(txt) ELSE NFD(Lower(txt))

StageMoves ==
    {<<"idle", "loop">>, <<"returned", "loop">>, <<"raised", "loop">>,
     <<"loop", "check">>, <<"loop", "returned">>, <<"check", "returned">>,
     <<"check", "raised">>}

\* C14: a call moves through its stages in one order only.  It enters the
\* tokenizer with the decomposed input and no token; while tokenizing no
\* result exists; it leaves the tokenizer only when the text is used up, and
\* the result it then has is the token concatenation after all rules, composed
\* (NFC) once, after the last rule; the result is not touched afterwards, and
\* the validating call fails exactly when the tokens of this tokenization hold an
\* unmatched symbol other than the space, the tally being the one they amount to.
C14_StageOrder ==
    [][\A t \in Threads :
          /\ pc'[t] # pc[t] => <<pc[t], pc'[t]>> \in StageMoves
          /\ (pc[t] # "loop" /\ pc'[t] = "loop") =>
                 /\ text'[t] = Normalized(input'[t])
                 /\ tr_list'[t] = <<>>
                 /\ result'[t] = <<>>
          /\ (pc[t] = "loop" /\ pc'[t] = "loop") =>
                 /\ Len(tr_list'[t]) = Len(tr_list[t]) + 1
                 /\ result'[t] = <<>>
          /\ (pc[t] = "loop" /\ pc'[t] # "loop") =>
                 LET rules == PostRules(post_file)
                 IN  /\ text[t] = <<>>
                     /\ tr_list'[t] = tr_list[t]
                     /\ pc'[t] = "check" <=> wrapper[t]
                     /\ result'[t] =
                            NFC(RuleStage(rules, JoinTargets(tr_list[t]), Len(rules)))
          /\ (pc[t] = "check" /\ pc'[t] # "check") =>
                 /\ result'[t] = result[t]
                 /\ nils = FullTally(tr_list[t])
                 /\ pc'[t] = "raised" <=> DOMAIN OwnTally(tr_list[t]) # {}
                 /\ pc'[t] = "raised" => outcome'[t].tally = OwnTally(tr_list[t])
                 /\ pc'[t] = "returned" => outcome'[t].value = <<result[t]>>]_vars

\* C14 witness: the rule y->m wrote a combining mark after the passed-through
\* "a", and the composition that ran after it made the two one character.
C14_Witness ==
    /\ post_file = "YM"
    /\ pc[1] = "returned"
    /\ input[1] = <<"a", "y">>
    /\ JoinTargets(tr_list[1]) = <<"a", "y">>
    /\ outcome[1].value = << <<"E">> >>

\* C15 (as stated): an engine without a rule file returns exactly the
\* in-order concatenation of the tokens' targets.
C15_NoRulesIdentity ==
    \A t \in Threads :
        (post_file = "None" /\ pc[t] \in {"check", "returned", "raised"}) =>
            result[t] = JoinTargets(tr_list[t])

\* C15 (amended): an engine without a rule file returns the in-order
\* concatenation of the tokens' targets in composed (NFC) form; no rule touches
\* it.
C15_NoRulesComposed ==
    \A t \in Threads :
        (post_file = "None" /\ pc[t] \in {"check", "returned", "raised"}) =>
            /\ result[t] = NFC(JoinTargets(tr_list[t]))
            /\ outcome[t].kind = "return" => outcome[t].value = <<NFC(JoinTargets(tr_list[t]))>>

\* C15 witness: without a rule file, the target stored in decomposed form
\* ("a" and the combining mark) was returned as the one composed character.
C15_Witness ==
    /\ post_file = "None"
    /\ custom_map_file = "threecol"
    /\ pc[1] = "returned"
    /\ input[1] = <<"b">>
    /\ JoinTargets(tr_list[1]) = <<"a", "m">>
    /\ outcome[1].value = << <<"E">> >>

\* the data rows of the mapping file that have a source and a target column
DataRows ==
    LET rows == IF FileExists(custom_map_file) /\ FileRows(custom_map_file) # <<>>
                THEN Tail(FileRows(custom_map_file)) ELSE <<>>
    IN  SelectSeq(rows, RowParses)

\* their sources, as the loader keeps them
RowSources == {NFD(DataRows[i][1]) : i \in 1..Len(DataRows)}

\* the targets (tone letters removed) of the rows whose source is exactly k, in
\* file order
RowTargets(k) ==
    LET mine == SelectSeq(DataRows, LAMBDA row : NFD(row[1]) = k)
    IN  [i \in 1..Len(mine) |-> StripTones(NFD(mine[i][2]))]

IsSuffix(s, whole) ==
    Len(s) <= Len(whole) /\ SubSeq(whole, Len(whole) - Len(s) + 1, Len(whole)) = s

\* C16: in OpenJTalkLabelEpitran the table has one entry per source as written,
\* holding the targets of the rows with exactly that source, so sources that
\* differ in case only are different entries; the text that is tokenized is the
\* decomposed input with its case kept, and the tokens are those of exact-case
\* longest match: a symbol is mapped through the key of its own case, and is
\* unmatched when only the key of the other case exists.
C16_CaseSensitive ==
    (cls = "OpenJTalkLabelEpitran" /\ engine = "ready") =>
        /\ DOMAIN LoadedTable = RowSources
        /\ \A k \in RowSources : LoadedTable[k] = RowTargets(k)
        /\ \A t \in Callers :
               /\ IsSuffix(text[t], NFD(input[t]))
               /\ text[t] = <<>> => tr_list[t] = RefTokens(LoadedTable, NFD(input[t]))

\* C16 witness: with the rows a -> x and A -> z, the input "aA" was tokenized
\* as x then z.
C16_Witness ==
    /\ cls = "OpenJTalkLabelEpitran"
    /\ custom_map_file = "case"
    /\ pc[1] = "returned"
    /\ input[1] = <<"a", "A">>
    /\ tr_list[1] = <<[target |-> <<"x">>, matched |-> TRUE],
                      [target |-> <<"z">>, matched |-> TRUE]>>

\* C17: the entry of a source holds the targets of all rows with that source,
\* in file order, from construction on and whatever calls are made; and every
\* tokenizer step that consumes a source of the file emits the target of the
\* first row with that source.
C17_DuplicateSources ==
    [][/\ engine' = "ready" => \A k \in RowSources : k \in DOMAIN g2p' /\ g2p'[k] = RowTargets(k)
       /\ \A t \in Threads : Stepped(t) =>
              LET consumed == SubSeq(text[t], 1, Len(text[t]) - Len(text'[t]))
                  token    == tr_list'[t][Len(tr_list'[t])]
              IN  (token.matched /\ consumed \in RowSources) =>
                      token.target = RowTargets(consumed)[1]]_vars

\* C17 witness: with the rows a -> x and a -> z, the entry of "a" holds x then
\* z and the input "a" was returned as x.
C17_Witness ==
    /\ custom_map_file = "dup"
    /\ pc[1] = "returned"
    /\ <<"a">> \in DOMAIN g2p
    /\ g2p[<<"a">>] = << <<"x">>, <<"z">> >>
    /\ input[1] = <<"a">>
    /\ outcome[1].value = << <<"x">> >>

\* the orders in which the rows of a file can be written
RowOrders(rows) ==
    LET n == Len(rows)
        bijections == {f \in [1..n -> 1..n] : \A i, j \in 1..n : i # j => f[i] # f[j]}
    IN  {[i \in 1..n |-> rows[f[i]]] : f \in bijections}

\* the tokens an OpenJTalkLabelEpitran built from the data rows `rows` gives for s
TokensUnder(rows, s) ==
    LET od == LoadRows(<<>>, rows)
    IN  Tokenize(ConstructRegex(KeysInOrder(od)), DictOf(od), s, MaxSteps)

\* C18: when no two rows of the mapping file share a source, the tokens and the
\* result of a call are those of an engine built from the same rows in any
\* other order.
C18_RowOrderIndependent ==
    (cls = "OpenJTalkLabelEpitran" /\ engine = "ready"
         /\ Cardinality(RowSources) = Len(DataRows)) =>
        \A t \in Threads :
            (pc[t] \in {"check", "returned", "raised"}) =>
                \A rows \in RowOrders(DataRows) :
                    /\ tr_list[t] = TokensUnder(rows, NFD(input[t]))
                    /\ result[t] = Finalize(JoinTargets(TokensUnder(rows, NFD(input[t]))))
                    /\ pc[t] # "check" =>
                           (pc[t] = "raised" <=>
                                (wrapper[t]
                                 /\ DOMAIN OwnTally(TokensUnder(rows, NFD(input[t]))) # {}))

\* C18 witness: the file lists the key "a" before the key "ab", and the input
\* "ab" was consumed as the one token of "ab".
C18_Witness ==
    /\ cls = "OpenJTalkLabelEpitran"
    /\ custom_map_file = "a_ab"
    /\ engine = "ready"
    /\ KeysInOrder(LoadG2pMap.od) = << <<"a">>, <<"a", "b">> >>
    /\ pc[1] = "returned"
    /\ input[1] = <<"a", "b">>
    /\ Len(tr_list[1]) = 1
    /\ tr_list[1][1].target = <<"y">>

\* C19: at every tokenizer step where no key of the loaded table is a prefix
\* of the remaining text, exactly one character is consumed, the token is an
\* unmatched one whose target is that character, and the tally of that character
\* grows by one (no other entry changes).
C19_MissHandling ==
    [][\A t \in Threads : Stepped(t) =>
          LET consumed == SubSeq(text[t], 1, Len(text[t]) - Len(text'[t]))
              token    == tr_list'[t][Len(tr_list'[t])]
          IN  {k \in DOMAIN LoadedTable : IsPrefix(k, text[t])} = {} =>
                  /\ consumed = <<text[t][1]>>
                  /\ ~token.matched
                  /\ token.target = consumed
                  /\ nils' = Increment(nils, text[t][1])]_vars

\* the calls that did not come through the validating transliterate and are over
Unvalidated == {t \in Finished : ~wrapper[t]}

TargetsOf(toks) == Flatten([i \in 1..Len(toks) |-> toks[i].target])

\* the symbols of s that are unmatched tokens under the table, in order
UnmatchedOf(dict, s) ==
    TargetsOf(SelectSeq(RefTokens(dict, s), LAMBDA tok : ~tok.matched))

MatchTable ==
    IF cls = "OpenJTalkLabelEpitran" THEN LoadedTable
    ELSE [k \in {Lower(j) : j \in DOMAIN LoadedTable} |->
              IF k \in DOMAIN LoadedTable THEN LoadedTable[k] ELSE <<k>>]

Whitespace == {" ", "nl"}

\* C21: a finished validating call whose (decomposed) input has no symbol
\* outside whitespace that the table leaves uncovered has returned, and the
\* tally of a failure holds no whitespace symbol.
C21_WhitespaceExempt ==
    \A t \in Finished :
        wrapper[t] =>
            LET missed == UnmatchedOf(LoadedTable, NFD(input[t]))
            IN  /\ (\A i \in 1..Len(missed) : missed[i] \in Whitespace) =>
                       outcome[t].kind = "return"
                /\ outcome[t].kind = "raise" =>
                       DOMAIN outcome[t].tally \cap Whitespace = {}

\* s without the spaces around it
RECURSIVE Trim(_)
Trim(s) ==
    IF s = <<>> THEN <<>>
    ELSE IF Head(s) = " " THEN Trim(Tail(s))
         ELSE IF s[Len(s)] = " " THEN Trim(SubSeq(s, 1, Len(s) - 1))
              ELSE s

\* the values a symbol-class declaration line lists, spaces around them left out
ValuesOf(line) ==
    LET parts == SplitBar(SymbolMatch(line).values)
    IN  [i \in 1..Len(parts) |-> Trim(parts[i])]

IsDeclaration(line) == SymbolMatch(line).hit

ShortValuesOf(line) == SelectSeq(ValuesOf(line), LAMBDA v : ~HasLengthMark(v))

\* C23 (as stated): for a symbol-class declaration line the returned line is
\* a declaration of the same class whose values are exactly the values of the
\* line that hold no length mark, in their order, and holds no length mark; any
\* other line is returned unchanged.
C23_LongVowelsRemoved ==
    gen_pc = "done" =>
        IF IsDeclaration(gen_arg)
        THEN /\ IsDeclaration(gen_ret)
             /\ gen_ret[1] = gen_arg[1]
             /\ ValuesOf(gen_ret) = ShortValuesOf(gen_arg)
             /\ ~HasLengthMark(gen_ret)
        ELSE gen_ret = gen_arg

\* C23 (amended): the same for a declaration line with at least one value
\* without the length mark; a declaration line all of whose values hold the
\* length mark is returned unchanged, as is a line that is no declaration.
C23_LongVowelsRemovedIfAnyShort ==
    gen_pc = "done" =>
        IF IsDeclaration(gen_arg) /\ ShortValuesOf(gen_arg) # <<>>
        THEN /\ IsDeclaration(gen_ret)
             /\ gen_ret[1] = gen_arg[1]
             /\ ValuesOf(gen_ret) = ShortValuesOf(gen_arg)
             /\ ~HasLengthMark(gen_ret)
        ELSE gen_ret = gen_arg

\* C23 witness: the declaration of the values a and a-long came back as the
\* declaration of the value a.
C23_Witness ==
    /\ gen_pc = "done"
    /\ gen_arg = <<"N", "=", "a", "|", "a", "L">>
    /\ gen_ret = <<"N", " ", "=", " ", "a">>

\* the texts main takes out of the rule file
RemovedTexts == {<<r>> : r \in rules_to_remove \cup comments_to_remove}

\* C24: no line of the generated file is one of the seven long-vowel rules or
\* of the two comments; the generated file has one line for every other line of
\* the input, in the input's order, and that line is the input line itself
\* unless it is a symbol-class declaration that the rewrite changed, in which
\* case it is the rewritten declaration.
C24_PostprocessGeneration ==
    gen_pc = "done" =>
        LET kept == SelectSeq(gen_arg, LAMBDA l : Strip(l) \notin RemovedTexts)
        IN  /\ \A i \in 1..Len(gen_ret) : Strip(gen_ret[i]) \notin RemovedTexts
            /\ Len(gen_ret) = Len(kept)
            /\ \A i \in 1..Len(kept) :
                   \/ gen_ret[i] = kept[i]
                   \/ /\ IsDeclaration(Strip(kept[i]))
                      /\ RemoveLongVowelsFromSymbol(Strip(kept[i])) # Strip(kept[i])
                      /\ Strip(gen_ret[i]) = RemoveLongVowelsFromSymbol(Strip(kept[i]))
            /\ \A i \in 1..Len(kept) :
                   ~IsDeclaration(Strip(kept[i])) => gen_ret[i] = kept[i]

\* C24 witness: of a long-vowel rule, a declaration with a long value and
\* another rule, the rule is gone, the declaration is rewritten and the other
\* rule is as it was.
C24_Witness ==
    /\ gen_pc = "done"
    /\ gen_arg = << <<"R1", "nl">>, <<"N", "=", "a", "|", "a", "L", "nl">>, <<"r", "nl">> >>
    /\ gen_ret = << <<"N", " ", "=", " ", "a", "nl">>, <<"r", "nl">> >>

\* the position of the last vowel of an IPA string, 0 when it has none
LastVowel(ipa) ==
    LET at == {i \in 1..Len(ipa) : ipa[i] \in vowels}
    IN  IF at = {} THEN 0 ELSE CHOOSE i \in at : \A j \in at : j <= i

\* C25: the data rows of the generated table have pairwise distinct labels and
\* come in non-increasing order of label length, so that no label comes after a
\* label that is its proper prefix.
C25_RowsSortedDistinct ==
    gen_pc = "done" =>
        /\ \A i, j \in 1..Len(gen_ret) : gen_ret[i][1] = gen_ret[j][1] => i = j
        /\ \A i, j \in 1..Len(gen_ret) :
               i < j => Len(gen_ret[i][1]) >= Len(gen_ret[j][1])
        /\ ~\E i, j \in 1..Len(gen_ret) :
               /\ i < j
               /\ Len(gen_ret[i][1]) < Len(gen_ret[j][1])
               /\ SubSeq(gen_ret[j][1], 1, Len(gen_ret[i][1])) = gen_ret[i][1]

\* C25 witness: a mora list that derives the one-character label i before the
\* three-character label kya; kya is written first and i after all
\* two-character labels.
C25_Witness ==
    /\ gen_pc = "done"
    /\ gen_arg = << << <<"I", <<>>, <<"i">> >>, <<"KYA", <<"k", "y">>, <<"a">> >> >>, "full">>
    /\ gen_ret[1] = << <<"k", "y", "a">>, <<"k", "j", "a">> >>
    /\ gen_ret[2] = << <<"k", "y", "A">>, <<"k", "j", "a", "D">> >>
    /\ gen_ret[Len(gen_ret)] = << <<"I">>, <<"i", "D">> >>
    /\ Len(gen_ret) = 14

\* C26: each of the ten labels va, vA, vi, vI, vu, vU, ve, vE, vo, vO has a row
\* in the generated table and every row of that label carries the fixed
\* v-series value, whatever the mora list and the kana table hold.
C26_VRowOverride ==
    gen_pc = "done" =>
        \A o \in 1..Len(v_overrides) :
            /\ \E i \in 1..Len(gen_ret) : gen_ret[i][1] = v_overrides[o][1]
            /\ \A i \in 1..Len(gen_ret) :
                   gen_ret[i][1] = v_overrides[o][1]
                   => gen_ret[i][2] = v_overrides[o][2]

\* C26 witness: the mora list derives va and vA from a kana whose IPA in the
\* kana table is ba, and the table written maps va and vA to the v-series.
C26_Witness ==
    /\ gen_pc = "done"
    /\ gen_arg[2] = "full"
    /\ \E m \in 1..Len(gen_arg[1]) : gen_arg[1][m] = <<"VA", <<"v">>, <<"a">> >>
    /\ DeriveLabels(<<>>, gen_arg[1], gen_arg[2])[1] = << <<"v", "a">>, <<"b", "a">> >>
    /\ \E i \in 1..Len(gen_ret) : gen_ret[i] = << <<"v", "a">>, <<"v", "a">> >>
    /\ \E i \in 1..Len(gen_ret) : gen_ret[i] = << <<"v", "A">>, <<"v", "a", "D">> >>

\* C27: add_voiceless_diacritic returns a string without a vowel (the empty
\* string included) unchanged, and for a string with a vowel the string with
\* one devoicing mark put directly after its last vowel and nothing else
\* changed.
C27_VoicelessAfterLastVowel ==
    gen_pc = "done" =>
        LET n == LastVowel(gen_arg)
        IN  IF n = 0 THEN gen_ret = gen_arg
            ELSE gen_ret = SubSeq(gen_arg, 1, n) \o <<"D">>
                           \o SubSeq(gen_arg, n + 1, Len(gen_arg))

\* C27 witness: a string with two vowels and a consonant after the last one
\* gets its mark between the last vowel and the consonant.
C27_Witness ==
    /\ gen_pc = "done"
    /\ gen_arg = <<"a", "k", "M", "k">>
    /\ gen_ret = <<"a", "k", "M", "D", "k">>

\* C28: get_alignment returns a non-empty list that is either one error entry
\* or one entry per phoneme of the pronunciation, in its order, with the meta
\* record on the first entry only; without use_flite a word of CMUdict gets its
\* first CMUdict pronunciation and lex_lookup is not asked, any other word has
\* lex_lookup asked after CMUdict; with use_flite CMUdict is not asked.
C28_AlignmentShape ==
    gen_pc \in {"done", "printed", "printed_error", "IndexError"} =>
        LET r         == gen_ret.result
            word      == gen_arg[1]
            use_flite == gen_arg[2]
            inDict    == WordLower(word) \in DOMAIN CMUDICT
            isError   == Len(r) = 1 /\ "error" \in DOMAIN r[1]
        IN  /\ Len(r) >= 1
            /\ \/ isError
               \/ /\ \A i \in 1..Len(r) : "error" \notin DOMAIN r[i]
                  /\ \A i \in 1..Len(r) : (r[i].meta # <<>>) <=> (i = 1)
                  /\ r[1].meta[1].source = "cmudict"
                     => [i \in 1..Len(r) |-> r[i].arpabet]
                        = CMUDICT[WordLower(word)][1]
                  /\ r[1].meta[1].source = "flite"
                     => [i \in 1..Len(r) |-> r[i].arpabet]
                        = get_arpabet_from_flite(gen_arg[3]).arpa
            /\ (~use_flite /\ inDict)
               => /\ gen_ret.consulted = {"cmudict"}
                  /\ ~isError
                  /\ r[1].meta[1].source = "cmudict"
            /\ (~use_flite /\ ~inDict)
               => gen_ret.consulted = {"cmudict", "flite"}
            /\ use_flite => gen_ret.consulted = {"flite"}

\* the segments of the label string that hold a symbol no key of the loaded
\* table covers
UnknownSegments ==
    LET segs == SplitBySilenceMarkers(p2i_labels)
    IN  {i \in 1..Len(segs) :
            Uncovered(DOMAIN LoadedTable, LabelsNoSpace(segs[i])) # <<>>}

\* C29: once phoneme_labels_to_ipa is over on a constructed engine for a label
\* string with a segment that holds an unknown label, it has failed with the
\* validation error of the first such segment (that segment's text and tally),
\* it stopped at that segment, and it collected the outputs of the segments
\* before it only and returned no joined string.
C29_SegmentFailureAborts ==
    (engine = "ready" /\ p2i_pc \in {"returned", "raised"} /\ UnknownSegments # {}) =>
        LET segs  == SplitBySilenceMarkers(p2i_labels)
            first == CHOOSE i \in UnknownSegments : \A j \in UnknownSegments : i <= j
        IN  /\ p2i_pc = "raised"
            /\ p2i_out.kind = "raise"
            /\ p2i_out.input = LabelsNoSpace(segs[first])
            /\ p2i_out.tally = ExpectedTally(DOMAIN LoadedTable, LabelsNoSpace(segs[first]))
            /\ p2i_idx = first
            /\ ipa_segments = RefOutputs(SubSeq(segs, 1, first - 1))

\* C30: over any calls of _get_epitran, overlapping ones included, at most one
\* engine is ever constructed and all calls that returned were handed the same
\* engine.
C30_LazySingleton ==
    /\ made <= 1
    /\ Cardinality(handed) <= 1

====
